---- MODULE Spec2Model ----
(***************************************************************************)
(* The four Grok-response inspection scripts of archistripe:               *)
(*   quick_grok_access.py, show_all_grok_responses.py,                     *)
(*   test_grok_access.py and view_grok_responses.py.                       *)
(* One run of one script is a behaviour: the script is fixed in Init, its  *)
(* inputs (the body of GET /api/documents, the answers of the detail       *)
(* endpoint, the tokens typed at the prompts, the success of open() and    *)
(* write(), an interrupt) are chosen by the actions.                       *)
(***************************************************************************)
EXTENDS Integers, Sequences, FiniteSets, TLC

VARIABLES
    script,       \* which script this run executes
    listing,      \* outcome of GET /api/documents: "pending", "ok" or "failed"
    pc,           \* position of the run in the script
    documents,    \* the list returned by GET /api/documents
    idx,          \* 1-based position of the for loop over documents
    grok_count,   \* show_all_grok_responses: documents with a response found
    grok_docs,    \* view_grok_responses: the list display_document_list returns
    gr,           \* the local gr: the response record last taken up for rendering
    grok_data,    \* view_grok_responses: what get_grok_response returned last
    choice,       \* view_grok_responses: the last value input() returned
    inputs,       \* number of selection prompts answered so far
    out,          \* console output, one record per printed block
    requests,     \* ids requested from /api/documents/{id}/grok-response
    fs,           \* the working directory: file name -> text written
    handle,       \* the file object of the running with-block
    interrupted   \* a KeyboardInterrupt was delivered to the run

vars == <<script, listing, pc, documents, idx, grok_count, grok_docs, gr, grok_data,
          choice, inputs, out, requests, fs, handle, interrupted>>

----------------------------------------------------------------------------
(* Bounds of the exploration *)

MaxDocs == 2      \* longest document list the server returns
MaxInputs == 2    \* selection prompts answered in one interactive run

(* Program constants *)

IdPrefixLen == 8        \* doc['id'][:8]
QuickExcerpt == 300     \* raw[:300]
ShowAllExcerpt == 100   \* raw_content[:100]
TestExcerpt == 500      \* raw_content[:500]
ViewExcerpt == 2000     \* [:2000]

----------------------------------------------------------------------------
(* JSON values as Python holds them after json.loads / response.json():    *)
(* None, str and dict.  Two kinds of str are kept apart by representation  *)
(* only: short labels (TLA+ strings) and texts that the scripts slice      *)
(* (sequences of characters).                                              *)

JNull == [t |-> "null"]
JStr(s) == [t |-> "str", s |-> s]
JText(c) == [t |-> "text", c |-> c]
JObj(f) == [t |-> "obj", f |-> f]
EmptyDict == [k \in {} |-> JNull]

\* Python truthiness: None, '' and {} are false
Truthy(v) ==
    CASE v.t = "null" -> FALSE
      [] v.t = "str"  -> v.s # ""
      [] v.t = "text" -> Len(v.c) > 0
      [] v.t = "obj"  -> DOMAIN v.f # {}

\* dict.get(key, default); the caller checks IsDict(d) first (None.get raises)
IsDict(d) == d.t = "obj"
Get(d, key, default) == IF key \in DOMAIN d.f THEN d.f[key] ELSE default

Min(a, b) == IF a < b THEN a ELSE b

\* s[:n]
Take(s, n) == SubSeq(s, 1, Min(n, Len(s)))

----------------------------------------------------------------------------
(* json.dump(obj, f, indent=2) writes the encoder's chunks to the file one *)
(* f.write at a time; json.load reads them back.  The text of a file is    *)
(* the sequence of chunks written to it.                                   *)

KeyOrder == <<"id", "originalName", "status", "propertyData", "rawExtractedData",
              "document", "fullGrokResponse", "full_response_content",
              "parsed_result", "documentClassification", "documentType">>

Tok(k) == [tok |-> k]

RECURSIVE Dump(_)
RECURSIVE DumpMembers(_, _)
Dump(v) ==
    CASE v.t = "null" -> << Tok("null") >>
      [] v.t = "str"  -> << [tok |-> "str", s |-> v.s] >>
      [] v.t = "text" -> << [tok |-> "text", c |-> v.c] >>
      [] v.t = "obj"  -> << Tok("{") >> \o DumpMembers(v.f, 1) \o << Tok("}") >>
DumpMembers(f, i) ==
    IF i > Len(KeyOrder) THEN << >>
    ELSE IF KeyOrder[i] \in DOMAIN f
         THEN << [tok |-> "key", s |-> KeyOrder[i]] >> \o Dump(f[KeyOrder[i]])
                  \o DumpMembers(f, i + 1)
         ELSE DumpMembers(f, i + 1)

Invalid == [t |-> "invalid"]
ParseFail == [ok |-> FALSE, v |-> Invalid, rest |-> << >>]

RECURSIVE ParseVal(_)
RECURSIVE ParseMembers(_, _)
ParseVal(ts) ==
    IF ts = << >> THEN ParseFail
    ELSE LET h == Head(ts) IN
         CASE h.tok = "null" -> [ok |-> TRUE, v |-> JNull, rest |-> Tail(ts)]
           [] h.tok = "str"  -> [ok |-> TRUE, v |-> JStr(h.s), rest |-> Tail(ts)]
           [] h.tok = "text" -> [ok |-> TRUE, v |-> JText(h.c), rest |-> Tail(ts)]
           [] h.tok = "{"    -> ParseMembers(Tail(ts), EmptyDict)
           [] OTHER          -> ParseFail
ParseMembers(ts, acc) ==
    IF ts = << >> THEN ParseFail
    ELSE LET h == Head(ts) IN
         CASE h.tok = "}"   -> [ok |-> TRUE, v |-> JObj(acc), rest |-> Tail(ts)]
           [] h.tok = "key" ->
                LET r == ParseVal(Tail(ts)) IN
                IF r.ok THEN ParseMembers(r.rest, (h.s :> r.v) @@ acc) ELSE ParseFail
           [] OTHER         -> ParseFail

\* json.load of a file's text: the value, or Invalid (JSONDecodeError)
Load(text) ==
    LET r == ParseVal(text) IN
    IF r.ok /\ r.rest = << >> THEN r.v ELSE Invalid

----------------------------------------------------------------------------
(* Inputs: what the external server can answer *)

\* ids are strings of IdPrefixLen + 1 characters
MkId(p, s) == [i \in 1..(IdPrefixLen + 1) |-> IF i <= IdPrefixLen THEN p ELSE s]
IdA1 == MkId("a", "1")
IdA2 == MkId("a", "2")
IdB1 == MkId("b", "1")

Classification == JObj([documentType |-> JStr("deed")])

\* texts of full_response_content
RawText == << "n", "o", "t" >>
JsonText == << "[", "1", "]" >>
LongText == [i \in 1..(ShowAllExcerpt + 1) |-> "x"]

\* AI Response Records
RecFull == JObj([full_response_content |-> JText(JsonText),
                 parsed_result |-> JObj([documentClassification |-> Classification])])
RecNoParsed == JObj([full_response_content |-> JText(RawText)])
RecNullParsed == JObj([full_response_content |-> JText(RawText), parsed_result |-> JNull])
RecNoClass == JObj([full_response_content |-> JText(<< >>),
                    parsed_result |-> JObj(EmptyDict)])
RecLong == JObj([full_response_content |-> JText(LongText),
                 parsed_result |-> JObj([documentClassification |-> JNull])])
Records == {RecFull, RecNoParsed, RecNullParsed, RecNoClass, RecLong}

\* propertyData carrying the record where show_all / test look for it
Embedded(r) == JObj([rawExtractedData |-> JObj([fullGrokResponse |-> r])])
\* propertyData carrying the record where display_document_list looks for it
TopLevel(r) == JObj([fullGrokResponse |-> r])

Doc(id, status) == [id |-> JText(id), originalName |-> JStr("a.pdf"), status |-> JStr(status)]
DocWith(id, status, pd) == JObj(Doc(id, status) @@ [propertyData |-> pd])

DocSet ==
    { JObj(Doc(IdB1, "completed")),
      DocWith(IdA1, "pending", JNull),
      DocWith(IdA1, "completed", Embedded(RecFull)),
      DocWith(IdA2, "completed", Embedded(RecNoParsed)),
      DocWith(IdB1, "pending", Embedded(RecLong)),
      DocWith(IdB1, "completed", Embedded(RecNullParsed)),
      DocWith(IdA2, "completed", Embedded(RecNoClass)),
      DocWith(IdA1, "completed", TopLevel(RecFull)),
      DocWith(IdA2, "pending", TopLevel(RecNoParsed)) }

DocLists == UNION { [1..n -> DocSet] : n \in 0..MaxDocs }

Scripts == {"quick", "show_all", "test", "view"}

----------------------------------------------------------------------------
(* Console output: one record per printed block.  d and st are the id and  *)
(* the status of the document the block is about; x is the text shown of   *)
(* a content excerpt, src the content it was cut from, s what is printed   *)
(* after it, n a printed number (an index or a count).                     *)

DocId(doc) == doc.f["id"].c
DocStatus(doc) == doc.f["status"].s

Ev(k, n, doc) ==
    [k |-> k, n |-> n, d |-> DocId(doc), st |-> DocStatus(doc),
     x |-> << >>, src |-> << >>, s |-> ""]
Msg(k, n) ==
    [k |-> k, n |-> n, d |-> << >>, st |-> "", x |-> << >>, src |-> << >>, s |-> ""]
Excerpt(doc, shown, raw, suffix, n) ==
    [k |-> "excerpt", n |-> n, d |-> DocId(doc), st |-> DocStatus(doc),
     x |-> shown, src |-> raw, s |-> suffix]

\* what a rendering routine hands back: the blocks printed, whether it
\* raised, the record bound to gr (JNull: none) and whether the with-block
\* that saves it is reached
Rendered(ev, raised, rec, save) ==
    [ev |-> ev, raised |-> raised, gr |-> rec, save |-> save]

\* if gr.get('parsed_result', {}).get('documentClassification'): print Type, Subtype
ClassBlock(rec, doc) ==
    LET pr == Get(rec, "parsed_result", JObj(EmptyDict)) IN
    IF ~IsDict(pr) THEN Rendered(<< >>, TRUE, rec, FALSE)    \* None.get: AttributeError
    ELSE IF Truthy(Get(pr, "documentClassification", JNull))
         THEN Rendered(<< Ev("class", 0, doc) >>, FALSE, rec, FALSE)
         ELSE Rendered(<< >>, FALSE, rec, FALSE)

\* a guard that never takes the early return
FalsyNever(list) == FALSE

\* not documents
Falsy(list) == list = << >>

\* the except Exception handlers that print "Error: ..." and a traceback
Caught == << Msg("error", 0), Msg("traceback", 0) >>

----------------------------------------------------------------------------
(* Files *)

\* f"grok_response_{doc['id'][:8]}.json"
FileName(id) == << "grok_response_" >> \o Take(id, IdPrefixLen) \o << ".json" >>
LatestFile == << "latest_grok_response.json" >>

NoHandle == [open |-> FALSE, name |-> << >>, todo |-> << >>]

\* open(filename, 'w'): the file exists and is empty from here on
Truncate(files, name) ==
    [m \in DOMAIN files \cup {name} |-> IF m = name THEN << >> ELSE files[m]]

\* f.write(chunk)
WriteTo(files, name, chunk) == [files EXCEPT ![name] = Append(@, chunk)]

----------------------------------------------------------------------------
Init ==
    /\ script \in Scripts
    /\ listing = "pending"
    /\ pc = "start"
    /\ documents = << >>
    /\ idx = 1
    /\ grok_count = 0
    /\ grok_docs = << >>
    /\ gr = JNull
    /\ grok_data = JNull
    /\ choice = << >>
    /\ inputs = 0
    /\ out = << >>
    /\ requests = << >>
    /\ fs = << >>
    /\ handle = NoHandle
    /\ interrupted = FALSE

----------------------------------------------------------------------------
(* The detail endpoint /api/documents/{id}/grok-response *)

\* {document: Document Summary, fullGrokResponse: AI Response Record}
Body(doc, r) ==
    JObj([document |-> JObj(Doc(DocId(doc), DocStatus(doc))), fullGrokResponse |-> r])

\* requests.get(...): an exception, a status other than 200, or 200 and a body
Responses(doc) ==
    { [kind |-> "exc", body |-> JNull], [kind |-> "status", body |-> JNull] }
      \cup { [kind |-> "ok", body |-> Body(doc, r)] : r \in Records }

\* one GET of the detail endpoint, as logged in requests
Request(doc) == [d |-> DocId(doc), st |-> DocStatus(doc)]

\* doc['propertyData']['rawExtractedData']['fullGrokResponse'] behind the
\* truthiness tests of show_all (lines 30-33) and test (lines 24-27)
RawData(doc) ==
    LET pd == Get(doc, "propertyData", JNull) IN
    IF Truthy(pd) THEN Get(pd, "rawExtractedData", JNull) ELSE JNull
EmbeddedRecord(doc) ==
    IF Truthy(RawData(doc)) THEN Get(RawData(doc), "fullGrokResponse", JNull) ELSE JNull

----------------------------------------------------------------------------
(* show_all_grok_responses.py *)

\* lines 25-63: the body of the for loop up to the with-block
SARender(doc, i) ==
    LET head == << Ev("entry", i, doc) >>
        rec == EmbeddedRecord(doc)
        top == head \o << Ev("available", 0, doc), Ev("metrics", 0, doc) >>
        cb == ClassBlock(rec, doc)
        raw_content == Get(rec, "full_response_content", JText(<< >>))
    IN  IF ~Truthy(RawData(doc))
        THEN Rendered(head \o << Ev("noprocessed", 0, doc) >>, FALSE, JNull, FALSE)
        ELSE IF ~Truthy(rec)
        THEN Rendered(head \o << Ev("nogrok", 0, doc) >>, FALSE, JNull, FALSE)
        ELSE IF cb.raised
        THEN Rendered(top, TRUE, rec, FALSE)
        ELSE IF Truthy(raw_content)
        THEN Rendered(top \o cb.ev \o
                        << Excerpt(doc, Take(raw_content.c, ShowAllExcerpt),
                                   raw_content.c, "...", Len(raw_content.c)) >>,
                      FALSE, rec, TRUE)
        ELSE Rendered(top \o cb.ev, FALSE, rec, FALSE)

\* lines 11-20
SA_Start ==
    /\ script = "show_all" /\ pc = "start"
    /\ \/ /\ listing' = "failed"              \* json.loads(result.stdout) raises
          /\ out' = out \o Caught
          /\ pc' = "done"
          /\ UNCHANGED documents
       \/ \E docs \in DocLists :
            /\ listing' = "ok"
            /\ documents' = docs
            /\ IF Falsy(docs)
               THEN out' = out \o << Msg("nodocs", 0) >> /\ pc' = "done"
               ELSE out' = out \o << Msg("found", Len(docs)) >> /\ pc' = "loop"
    /\ UNCHANGED <<script, idx, grok_count, grok_docs, gr, grok_data, choice, inputs,
                   requests, fs, handle, interrupted>>

\* lines 24-63: one iteration, up to the with-block
SA_Doc ==
    /\ script = "show_all" /\ pc = "loop" /\ idx <= Len(documents)
    /\ LET r == SARender(documents[idx], idx) IN
         /\ grok_count' = IF r.gr # JNull THEN grok_count + 1 ELSE grok_count
         /\ gr' = IF r.gr # JNull THEN r.gr ELSE gr
         /\ IF r.raised
            THEN /\ out' = out \o r.ev \o Caught
                 /\ pc' = "done"
                 /\ UNCHANGED idx
            ELSE IF r.save
            THEN /\ out' = out \o r.ev
                 /\ pc' = "open"
                 /\ UNCHANGED idx
            ELSE /\ out' = out \o r.ev
                 /\ idx' = idx + 1
                 /\ pc' = "loop"
    /\ UNCHANGED <<script, listing, documents, grok_docs, grok_data, choice, inputs,
                   requests, fs, handle, interrupted>>

\* lines 65-74
SA_Summary ==
    /\ script = "show_all" /\ pc = "loop" /\ idx > Len(documents)
    /\ out' = out \o << Msg("summary", grok_count),
                        Msg(IF grok_count > 0 THEN "hints" ELSE "nothing", 0) >>
    /\ pc' = "done"
    /\ UNCHANGED <<script, listing, documents, idx, grok_count, grok_docs, gr,
                   grok_data, choice, inputs, requests, fs, handle, interrupted>>

----------------------------------------------------------------------------
(* quick_grok_access.py *)

\* lines 20-56: the body of the for loop
QuickRender(doc, resp) ==
    LET head == << Ev("entry", 0, doc) >>
        rec == resp.body.f["fullGrokResponse"]
        top == head \o << Ev("available", 0, doc), Ev("metrics", 0, doc) >>
        raw == Get(rec, "full_response_content", JText(<< >>))
        shown == IF Truthy(raw)
                 THEN << Excerpt(doc, Take(raw.c, QuickExcerpt), raw.c, "...", 0) >>
                 ELSE << >>
        cb == ClassBlock(rec, doc)
    IN  IF DocStatus(doc) # "completed"
        THEN Rendered(head \o << Ev("notyet", 0, doc) >>, FALSE, JNull, FALSE)
        ELSE IF resp.kind = "exc"
        THEN Rendered(head \o << Ev("error", 0, doc) >>, FALSE, JNull, FALSE)
        ELSE IF resp.kind = "status"
        THEN Rendered(head \o << Ev("nogrok", 0, doc) >>, FALSE, JNull, FALSE)
        ELSE IF cb.raised          \* caught by the inner except Exception
        THEN Rendered(top \o shown \o << Ev("error", 0, doc) >>, TRUE, rec, FALSE)
        ELSE Rendered(top \o shown \o cb.ev, FALSE, rec, FALSE)

\* lines 11-17
Q_Start ==
    /\ script = "quick" /\ pc = "start"
    /\ \/ /\ listing' = "failed"              \* requests.get(...).json() raises
          /\ out' = out \o << Msg("error", 0) >>
          /\ pc' = "done"
          /\ UNCHANGED documents
       \/ \E docs \in DocLists :
            /\ listing' = "ok"
            /\ documents' = docs
            /\ IF Falsy(docs)
               THEN out' = out \o << Msg("nodocs", 0) >> /\ pc' = "done"
               ELSE out' = out \o << Msg("found", Len(docs)) >> /\ pc' = "loop"
    /\ UNCHANGED <<script, idx, grok_count, grok_docs, gr, grok_data, choice, inputs,
                   requests, fs, handle, interrupted>>

\* lines 19-56: one iteration
Q_Doc ==
    /\ script = "quick" /\ pc = "loop" /\ idx <= Len(documents)
    /\ LET doc == documents[idx] IN
         IF DocStatus(doc) = "completed"
         THEN \E resp \in Responses(doc) :
                LET r == QuickRender(doc, resp) IN
                /\ requests' = Append(requests, Request(doc))
                /\ out' = out \o r.ev
                /\ gr' = IF r.gr # JNull THEN r.gr ELSE gr
         ELSE /\ out' = out \o QuickRender(doc, [kind |-> "none", body |-> JNull]).ev
              /\ UNCHANGED <<requests, gr>>
    /\ idx' = idx + 1
    /\ UNCHANGED <<script, listing, pc, documents, grok_count, grok_docs, grok_data,
                   choice, inputs, fs, handle, interrupted>>

\* the for loop is exhausted: the function returns
Q_End ==
    /\ script = "quick" /\ pc = "loop" /\ idx > Len(documents)
    /\ pc' = "done"
    /\ UNCHANGED <<script, listing, documents, idx, grok_count, grok_docs, gr,
                   grok_data, choice, inputs, out, requests, fs, handle, interrupted>>

----------------------------------------------------------------------------
(* test_grok_access.py *)

\* lines 19-62, up to the with-block
TestRender(doc) ==
    LET head == << Ev("entry", 0, doc) >>
        rec == EmbeddedRecord(doc)
        raw_content == Get(rec, "full_response_content", JText(<< >>))
        top == head \o << Ev("available", 0, doc), Ev("metrics", 0, doc),
                          Excerpt(doc, Take(raw_content.c, TestExcerpt),
                                  raw_content.c, "", Len(raw_content.c)) >>
        cb == ClassBlock(rec, doc)
    IN  IF ~Truthy(RawData(doc))
        THEN Rendered(head \o << Ev("noprocessed", 0, doc) >>, FALSE, JNull, FALSE)
        ELSE IF ~Truthy(rec)
        THEN Rendered(head \o << Ev("nogrok", 0, doc) >>, FALSE, JNull, FALSE)
        ELSE IF cb.raised
        THEN Rendered(top, TRUE, rec, FALSE)
        ELSE Rendered(top \o cb.ev \o << Ev("success", 0, doc) >>, FALSE, rec, TRUE)

\* lines 10-62
T_Start ==
    /\ script = "test" /\ pc = "start"
    /\ \/ /\ listing' = "failed"              \* json.loads(result.stdout) raises
          /\ out' = out \o Caught
          /\ pc' = "done"
          /\ UNCHANGED <<documents, gr>>
       \/ \E docs \in DocLists :
            /\ listing' = "ok"
            /\ documents' = docs
            /\ IF Falsy(docs)
               THEN /\ out' = out \o << Msg("nodocs", 0) >>
                    /\ pc' = "done"
                    /\ UNCHANGED gr
               ELSE IF Len(docs) = 0          \* documents[0]: IndexError, caught
               THEN /\ out' = out \o Caught
                    /\ pc' = "done"
                    /\ UNCHANGED gr
               ELSE LET r == TestRender(docs[1]) IN
                    /\ gr' = r.gr
                    /\ out' = out \o r.ev \o (IF r.raised THEN Caught ELSE << >>)
                    /\ pc' = IF r.save THEN "open" ELSE "done"
    /\ UNCHANGED <<script, idx, grok_count, grok_docs, grok_data, choice, inputs,
                   requests, fs, handle, interrupted>>

----------------------------------------------------------------------------
(* view_grok_responses.py *)

\* json.loads(raw_content) on the texts the server sends here: a JSON array
\* of ones parses (to its length), anything else raises
IsJson(c) ==
    /\ Len(c) >= 2 /\ c[1] = "[" /\ c[Len(c)] = "]"
    /\ \/ Len(c) = 2
       \/ /\ Len(c) % 2 = 1
          /\ \A i \in 2..(Len(c) - 1) : c[i] = (IF i % 2 = 0 THEN "1" ELSE ",")
JsonLoads(c) == IF Len(c) = 2 THEN 0 ELSE (Len(c) - 1) \div 2

\* json.dumps(parsed, indent=2) of an array of k ones
JsonDumpsIndent(k) ==
    IF k = 0 THEN << "[", "]" >>
    ELSE << "[" >>
         \o [p \in 1..(5 * k - 1) |->
               CASE (p - 1) % 5 = 0 -> "\n"
                 [] (p - 1) % 5 = 1 -> " "
                 [] (p - 1) % 5 = 2 -> " "
                 [] (p - 1) % 5 = 3 -> "1"
                 [] OTHER           -> ","]
         \o << "\n", "]" >>

\* line 50: doc.get('propertyData', {}).get('fullGrokResponse') is not None
PropertyData(doc) == Get(doc, "propertyData", JObj(EmptyDict))
HasGrok(doc) == Get(PropertyData(doc), "fullGrokResponse", JNull) # JNull

\* the first document on which line 50 raises (None.get), or Len + 1
FirstBad(docs) ==
    LET bad == { j \in 1..Len(docs) : ~IsDict(PropertyData(docs[j])) } IN
    IF bad = {} THEN Len(docs) + 1 ELSE CHOOSE j \in bad : \A m \in bad : j <= m

\* display_document_list: the documents it lists and the entries it prints
Listed(docs) == SelectSeq(SubSeq(docs, 1, FirstBad(docs) - 1), HasGrok)
ListEntries(listed) == [j \in 1..Len(listed) |-> Ev("entry", j, listed[j])]

\* display_grok_response(grok_data), for the document selected
ViewRender(data, doc) ==
    LET rec == data.f["fullGrokResponse"]
        top == << Ev("available", 0, doc), Ev("metrics", 0, doc) >>
        cb == ClassBlock(rec, doc)
        raw_content == Get(rec, "full_response_content", JText(<< >>))
        c == raw_content.c
        text == IF IsJson(c) THEN JsonDumpsIndent(JsonLoads(c)) ELSE c
        shown == IF Truthy(raw_content)
                 THEN << Excerpt(doc, Take(text, ViewExcerpt), c,
                                 IF Len(c) > ViewExcerpt THEN "truncated" ELSE "",
                                 IF Len(c) > ViewExcerpt THEN Len(c) ELSE 0) >>
                 ELSE << Ev("noraw", 0, doc) >>
    IN  IF cb.raised
        THEN Rendered(top, TRUE, rec, FALSE)
        ELSE Rendered(top \o cb.ev \o shown, FALSE, rec, FALSE)

\* what get_grok_response returns: None after a caught exception, or the body
ViewRecords == {RecFull, RecNullParsed}
ViewResponses(doc) == { JNull } \cup { Body(doc, r) : r \in ViewRecords }

\* the tokens typed at the selection prompt
Tokens == { << "q" >>, << "Q" >>, << "1" >>, << "2" >>, << "9" >>, << "x" >> }

\* str.strip() and str.lower() on the characters typed here
RECURSIVE Strip(_)
Strip(s) ==
    IF s = << >> THEN s
    ELSE IF Head(s) = " " THEN Strip(Tail(s))
    ELSE IF s[Len(s)] = " " THEN Strip(SubSeq(s, 1, Len(s) - 1))
    ELSE s
LowerChar(ch) == IF ch = "Q" THEN "q" ELSE IF ch = "Y" THEN "y" ELSE ch
Lower(s) == [i \in 1..Len(s) |-> LowerChar(s[i])]

\* int(choice): ValueError unless the token is a decimal number
Digits == << "0", "1", "2", "3", "4", "5", "6", "7", "8", "9" >>
IsDigit(ch) == \E i \in 1..Len(Digits) : Digits[i] = ch
DigitVal(ch) == (CHOOSE i \in 1..Len(Digits) : Digits[i] = ch) - 1
IsInt(s) == Len(s) > 0 /\ \A i \in 1..Len(s) : IsDigit(s[i])
RECURSIVE IntVal(_)
IntVal(s) ==
    IF s = << >> THEN 0
    ELSE 10 * IntVal(SubSeq(s, 1, Len(s) - 1)) + DigitVal(s[Len(s)])

\* an upper bound that leaves out the last document
InRangeStrict(n, len) == 1 <= n /\ n < len

\* 1 <= doc_num <= len(grok_docs)
InRange(n, len) == 1 <= n /\ n <= len

\* selected_doc = grok_docs[doc_num - 1]
Selected == grok_docs[IntVal(Strip(choice))]

\* lines 115-127
V_Start ==
    /\ script = "view" /\ pc = "start"
    /\ \/ /\ listing' = "failed"              \* get_documents caught an exception
          /\ out' = out \o << Msg("banner", 0), Msg("error", 0), Msg("nodocs", 0) >>
          /\ pc' = "done"
          /\ UNCHANGED <<documents, grok_docs>>
       \/ \E docs \in DocLists :
            /\ listing' = "ok"
            /\ documents' = docs
            /\ IF Falsy(docs)
               THEN /\ out' = out \o << Msg("banner", 0), Msg("nodocs", 0) >>
                    /\ pc' = "done"
                    /\ UNCHANGED grok_docs
               ELSE LET listed == Listed(docs)
                        head == << Msg("banner", 0), Msg("header", 0) >>
                                   \o ListEntries(listed)
                    IN  IF FirstBad(docs) <= Len(docs)
                        THEN /\ out' = out \o head \o << Msg("uncaught", 0) >>
                             /\ pc' = "crashed"
                             /\ UNCHANGED grok_docs
                        ELSE IF listed = << >>
                        THEN /\ out' = out \o head \o << Msg("nolist", 0) >>
                             /\ pc' = "done"
                             /\ UNCHANGED grok_docs
                        ELSE /\ out' = out \o head
                             /\ grok_docs' = listed
                             /\ pc' = "awaiting"
    /\ UNCHANGED <<script, idx, grok_count, gr, grok_data, choice, inputs, requests,
                   fs, handle, interrupted>>

\* lines 132-155: one answer at the selection prompt
V_Select ==
    /\ script = "view" /\ pc = "awaiting" /\ inputs < MaxInputs
    /\ \E token \in Tokens :
         LET c == Strip(token) IN
         /\ choice' = token
         /\ inputs' = inputs + 1
         /\ IF Lower(c) = << "q" >> \/ ~IsInt(c)     \* break, or ValueError: break
            THEN /\ out' = out \o << Msg("goodbye", 0) >>
                 /\ pc' = "done"
                 /\ UNCHANGED <<requests, gr, grok_data>>
            ELSE IF InRange(IntVal(c), Len(grok_docs))
            THEN LET doc == grok_docs[IntVal(c)] IN
                 \E data \in ViewResponses(doc) :
                   /\ requests' = Append(requests, Request(doc))
                   /\ grok_data' = data
                   /\ IF ~Truthy(data)
                      THEN /\ out' = out \o << Msg("error", 0), Ev("failed", 0, doc) >>
                           /\ pc' = "awaiting"
                           /\ UNCHANGED gr
                      ELSE LET r == ViewRender(data, doc) IN
                           /\ gr' = r.gr
                           /\ IF r.raised
                              THEN /\ out' = out \o r.ev \o << Msg("uncaught", 0) >>
                                   /\ pc' = "crashed"
                              ELSE /\ out' = out \o r.ev
                                   /\ pc' = "savePrompt"
            ELSE /\ out' = out \o << Msg("invalid", 0) >>
                 /\ pc' = "awaiting"
                 /\ UNCHANGED <<requests, gr, grok_data>>
    /\ UNCHANGED <<script, listing, documents, idx, grok_count, grok_docs, fs, handle,
                   interrupted>>

\* lines 146-147: the answer to "Save full response to file? (y/n)"
V_Save ==
    /\ script = "view" /\ pc = "savePrompt"
    /\ \E answer \in { << "y" >>, << "Y" >>, << "n" >> } :
         pc' = IF Lower(Strip(answer)) = << "y" >> THEN "open" ELSE "awaiting"
    /\ UNCHANGED <<script, listing, documents, idx, grok_count, grok_docs, gr,
                   grok_data, choice, inputs, out, requests, fs, handle, interrupted>>

----------------------------------------------------------------------------
(* The with-blocks: with open(filename, 'w') as f: json.dump(obj, f, indent=2) *)

CurrentFile ==
    CASE script = "show_all" -> FileName(DocId(documents[idx]))
      [] script = "test"     -> LatestFile
      [] script = "view"     -> FileName(DocId(Selected))

\* the object handed to json.dump: gr in show_all and test, grok_data in view
Payload == IF script = "view" THEN grok_data ELSE gr

\* an OSError of open() or write(): show_all and test catch it in their outer
\* except Exception and return; nothing in view's main catches it
OnOSError ==
    IF script = "view"
    THEN out' = out \o << Msg("ioerror", 0), Msg("uncaught", 0) >> /\ pc' = "crashed"
    ELSE out' = out \o << Msg("ioerror", 0), Msg("traceback", 0) >> /\ pc' = "done"

OpenFile ==
    /\ pc = "open"
    /\ fs' = Truncate(fs, CurrentFile)
    /\ handle' = [open |-> TRUE, name |-> CurrentFile, todo |-> Dump(Payload)]
    /\ pc' = "write"
    /\ UNCHANGED <<script, listing, documents, idx, grok_count, grok_docs, gr,
                   grok_data, choice, inputs, out, requests, interrupted>>

OpenFails ==
    /\ pc = "open"
    /\ OnOSError
    /\ UNCHANGED <<script, listing, documents, idx, grok_count, grok_docs, gr,
                   grok_data, choice, inputs, requests, fs, handle, interrupted>>

WriteChunk ==
    /\ pc = "write" /\ handle.todo # << >>
    /\ fs' = WriteTo(fs, handle.name, Head(handle.todo))
    /\ handle' = [handle EXCEPT !.todo = Tail(@)]
    /\ UNCHANGED <<script, listing, pc, documents, idx, grok_count, grok_docs, gr,
                   grok_data, choice, inputs, out, requests, interrupted>>

WriteFails ==
    /\ pc = "write" /\ handle.todo # << >>
    /\ handle' = NoHandle
    /\ OnOSError
    /\ UNCHANGED <<script, listing, documents, idx, grok_count, grok_docs, gr,
                   grok_data, choice, inputs, requests, fs, interrupted>>

\* json.dump returned: the file is closed and "Saved to" is printed
CloseFile ==
    /\ pc = "write" /\ handle.todo = << >>
    /\ handle' = NoHandle
    /\ out' = out \o << Msg("saved", 0) >>
    /\ CASE script = "show_all" -> idx' = idx + 1 /\ pc' = "loop"
         [] script = "test"     -> pc' = "done" /\ UNCHANGED idx
         [] script = "view"     -> pc' = "awaiting" /\ UNCHANGED idx
    /\ UNCHANGED <<script, listing, documents, grok_count, grok_docs, gr, grok_data,
                   choice, inputs, requests, fs, interrupted>>

----------------------------------------------------------------------------
(* KeyboardInterrupt: view's loop catches it and breaks; elsewhere it ends *)
(* the process.  An open file is closed with what was written so far.      *)

Running == pc \notin {"done", "killed", "crashed"}
InViewLoop == script = "view" /\ pc \in {"awaiting", "savePrompt", "open", "write"}

Interrupt ==
    /\ Running
    /\ interrupted' = TRUE
    /\ handle' = NoHandle
    /\ IF InViewLoop
       THEN out' = out \o << Msg("goodbye", 0) >> /\ pc' = "done"
       ELSE out' = out \o << Msg("interrupt", 0) >> /\ pc' = "killed"
    /\ UNCHANGED <<script, listing, documents, idx, grok_count, grok_docs, gr,
                   grok_data, choice, inputs, requests, fs>>

----------------------------------------------------------------------------
Next ==
    \/ SA_Start \/ SA_Doc \/ SA_Summary
    \/ Q_Start \/ Q_Doc \/ Q_End
    \/ T_Start
    \/ V_Start \/ V_Select \/ V_Save
    \/ OpenFile \/ OpenFails \/ WriteChunk \/ WriteFails \/ CloseFile
    \/ Interrupt

Spec == Init /\ [][Next]_vars

----------------------------------------------------------------------------
(* Reading the console output *)

Positions(k) == { j \in 1..Len(out) : out[j].k = k }
HasEvent(k) == Positions(k) # {}
IsEntry(e) == e.k = "entry"
Entries == SelectSeq(out, IsEntry)
EntryPos(j) ==
    CHOOSE p \in Positions("entry") :
        Cardinality({ q \in Positions("entry") : q <= p }) = j

\* the blocks that show a response record
RecordBlocks == {"available", "metrics", "class", "excerpt"}
\* the blocks one rendering of a record can print, failure reports included
RenderKinds == RecordBlocks \cup {"noraw", "success", "error", "traceback", "uncaught"}
LastAvailable == CHOOSE a \in Positions("available") : \A b \in Positions("available") : b <= a
\* the blocks printed by the rendering that began at position a
Block(a) == { j \in a..Len(out) : \A m \in a..j : out[m].k \in RenderKinds }

----------------------------------------------------------------------------
(* C1: at the selection prompt of view_grok_responses.main every invalid   *)
(* token (not 'q'; non-numeric or outside 1..len(grok_docs)) leaves the    *)
(* loop awaiting a selection, with no fetch and no file write.             *)
\* what the tokens typed here mean, read off the tokens themselves
IsQuit(token) == token \in { << "q" >>, << "Q" >> }
TokenValue(token) ==
    CASE token = << "1" >> -> 1
      [] token = << "2" >> -> 2
      [] token = << "9" >> -> 9
      [] OTHER             -> -1      \* not a number
SelectStep == script = "view" /\ pc = "awaiting" /\ inputs' = inputs + 1
NoFetchNoWrite == requests' = requests /\ fs' = fs
Notices == {"notyet", "noprocessed", "nogrok"}
C2_NoRecordUnlessCompleted ==
    script \in {"quick", "show_all", "view"} =>
    /\ \A j \in 1..Len(requests) : requests[j].st = "completed"
    /\ \A j \in 1..Len(out) :
         /\ out[j].k \in RecordBlocks => out[j].st = "completed"
         /\ (script # "view" /\ out[j].k = "entry" /\ out[j].st # "completed")
              => (j < Len(out) /\ out[j + 1].k \in Notices)

(* C3: after a failed open() or write() the run goes on: view's loop does  *)
(* not end in an uncaught exception, and show_all still lists every        *)
(* document and prints its SUMMARY line.                                   *)
C3_WriteErrorDoesNotAbort ==
    HasEvent("ioerror") =>
        /\ pc # "crashed"
        /\ (script = "show_all" /\ pc = "done" /\ ~interrupted)
             => (HasEvent("summary") /\ Len(Entries) = Len(documents))

(* C4: after an interrupt every output file holds a complete serialized    *)
(* payload (or does not exist), never an empty or partial one.             *)
C4_InterruptLeavesFilesWhole ==
    interrupted => \A name \in DOMAIN fs : Load(fs[name]) # Invalid

(* C5: when GET /api/documents returns the empty list, the script prints   *)
(* its "no documents found" message and ends: no detail fetch, no prompt,  *)
(* no file, no exception.                                                  *)
C5_EmptyListOnlyNotice ==
    (listing = "ok" /\ documents = << >>) =>
        /\ pc = "done"
        /\ out = IF script = "view"
                 THEN << Msg("banner", 0), Msg("nodocs", 0) >>
                 ELSE << Msg("nodocs", 0) >>
        /\ requests = << >>
        /\ DOMAIN fs = {}
        /\ inputs = 0
        /\ handle = NoHandle
C5_Witness ==
    /\ listing = "ok" /\ documents = << >> /\ pc = "done"
    /\ HasEvent("nodocs")

(* C6: once the listing is over, the entries printed are the N documents   *)
(* of the list, one each, in input order and numbered by position.         *)
ListingOver ==
    \/ script \in {"quick", "show_all"} /\ pc = "done"
    \/ script = "view" /\ pc \notin {"start", "killed"}
C6_ListsEveryDocument ==
    (listing = "ok" /\ ListingOver) =>
        /\ Len(Entries) = Len(documents)
        /\ \A j \in 1..Len(documents) :
             /\ Entries[j].d = DocId(documents[j])
             /\ Entries[j].st = DocStatus(documents[j])
             /\ script # "quick" => Entries[j].n = j

(* C7: rendering a record without a classification (parsed_result missing  *)
(* or null, documentClassification missing or null) prints no              *)
(* classification block, raises and reports nothing, and still prints the  *)
(* excerpt of a non-empty content.                                         *)
ClassAbsent(rec) ==
    \/ "parsed_result" \notin DOMAIN rec.f
    \/ ~IsDict(rec.f["parsed_result"])
    \/ "documentClassification" \notin DOMAIN rec.f["parsed_result"].f
    \/ rec.f["parsed_result"].f["documentClassification"] = JNull
C7_AbsentClassificationIsSilent ==
    (script \in {"quick", "view"} /\ gr # JNull /\ HasEvent("available")
        /\ ClassAbsent(gr)) =>
        /\ \A j \in Block(LastAvailable) :
             out[j].k \notin {"class", "error", "traceback", "uncaught"}
        /\ Truthy(Get(gr, "full_response_content", JText(<< >>)))
             => \E j \in Block(LastAvailable) : out[j].k = "excerpt"

(* C8: a document whose summary embeds a record under                      *)
(* propertyData.rawExtractedData.fullGrokResponse is reported as having a  *)
(* response record: rendered after its entry by quick and show_all, listed *)
(* by view.                                                                *)
C8_EmbeddedRecordIsReported ==
    /\ (script \in {"quick", "show_all"} /\ listing = "ok") =>
         \A j \in 1..Len(Entries) :
             Truthy(EmbeddedRecord(documents[j]))
               => (EntryPos(j) < Len(out) /\ out[EntryPos(j) + 1].k = "available")
    /\ (script = "view" /\ listing = "ok" /\ pc \notin {"start", "killed"}) =>
         \A j \in 1..Len(documents) :
             Truthy(EmbeddedRecord(documents[j]))
               => \E m \in 1..Len(grok_docs) : grok_docs[m] = documents[j]

(* C9: with excerpt bound N of the call site, a content of length <= N is  *)
(* shown whole with nothing after it; a longer one is shown as its first N *)
(* characters followed by an indicator counting length - N or the length.  *)
ExcerptBound ==
    CASE script = "quick"    -> QuickExcerpt
      [] script = "show_all" -> ShowAllExcerpt
      [] script = "view"     -> ViewExcerpt
      [] OTHER               -> TestExcerpt
C9_ExcerptRule ==
    script # "test" =>
      \A j \in Positions("excerpt") :
        LET e == out[j] IN
        IF Len(e.src) <= ExcerptBound
        THEN e.x = e.src /\ e.s = ""
        ELSE /\ e.x = Take(e.src, ExcerptBound)
             /\ e.s # ""
             /\ e.n \in { Len(e.src) - ExcerptBound, Len(e.src) }

(* C10: after a save, json.load of grok_response_{id[:8]}.json gives back  *)
(* exactly that document's response record, for every document saved so   *)
(* far in the run.                                                         *)
C10_SavedFileRoundTrips ==
    /\ (script = "show_all" /\ pc \in {"loop", "done"} /\ ~HasEvent("ioerror")) =>
         \A j \in 1..(idx - 1) :
             SARender(documents[j], j).save =>
                 /\ FileName(DocId(documents[j])) \in DOMAIN fs
                 /\ Load(fs[FileName(DocId(documents[j]))]) = EmbeddedRecord(documents[j])
    /\ (script = "view" /\ pc = "awaiting" /\ Len(out) > 0 /\ out[Len(out)].k = "saved") =>
         Load(fs[CurrentFile]) = gr

====
